---- MODULE Spec2Model ----
(***************************************************************************)
(* queuectl: a SQLite-backed job queue (src/storage.py) and the worker     *)
(* loop that consumes it (src/queuectl/worker.py).                         *)
(*                                                                         *)
(* Time is counted in seconds.  Timestamps are stored by the code as ISO   *)
(* strings of datetime.utcnow(), a fixed-width format whose string order   *)
(* is the order of the instants, so a timestamp is modelled by its number  *)
(* of seconds and SQL's string comparison by <, <=.                        *)
(***************************************************************************)
EXTENDS Integers, FiniteSets, Sequences, TLC

VARIABLES
    jobs,      \* the jobs table: job id -> row
    config,    \* the config table: key -> value
    now,       \* datetime.utcnow(), in seconds
    wk,        \* per worker: position in Worker.run and its local variables
    cli,       \* an operator's `dlq retry` call: position in retry_job
    last,      \* the store call that returned last: its name, arguments, result
    cyc,       \* per job: acquire-then-fail cycles since creation or DLQ retry
               \* (Tainted once anything else touched the job)
    proc,      \* per worker: its process and its running flag
    mgr        \* the WorkerManager: its workers list, position in stop_workers

vars == <<jobs, config, now, wk, cli, last, cyc, proc, mgr>>

----------------------------------------------------------------------------
(* Bounds of the model *)

MaxWorkers == 2       \* worker ids are 1..MaxWorkers
MaxRetriesArg == 1    \* explicit max_retries arguments are 0..MaxRetriesArg
MaxOverrun == 2       \* fail_job is called on a row while its attempts are
                      \* below max_retries + MaxOverrun
MaxSeconds == 2       \* one-second clock steps per five-minute window
MaxWindows == 1       \* five-minute clock steps
MaxWaits == 3         \* waits of one job's life, each just over five minutes

(* Program constants *)

DefaultMaxRetries == 3     \* config default, and get_config's fallback
DefaultBackoffBase == 2
StaleMinutes == 5          \* acquire_job's and release_stale_locks' threshold
SecondsPerMinute == 60
SecondsPerDay == 86400
GraceSeconds == 30         \* stop_workers' wait for the workers to finish

NULL == -1                 \* SQL NULL in an integer or timestamp column
NoText == "NULL"           \* SQL NULL in a text column

JobIds == {1, 2}
Workers == 1..MaxWorkers
Tainted == NULL

CommandArg == "echo"        \* the command of every job of the model
TimeoutArg == 1             \* and its timeout, in seconds
States == {"pending", "processing", "completed", "failed", "dead"}

----------------------------------------------------------------------------
(* The SQL statements of JobStore, as functions of the table *)

\* a wrong power: the product instead
PowLinear(b, e) == b * e

RECURSIVE Pow(_, _)
Pow(b, e) == IF e <= 0 THEN 1 ELSE b * Pow(b, e - 1)

(* The config table keeps its values as text: set_config writes           *)
(* str(value), get_config returns int(row["value"]).  A text is the       *)
(* sequence of its characters.                                             *)

Digits == <<"0", "1", "2", "3", "4", "5", "6", "7", "8", "9">>

RECURSIVE DigitsOf(_)
DigitsOf(n) ==
    IF n < 10 THEN <<Digits[n + 1]>>
    ELSE DigitsOf(n \div 10) \o <<Digits[(n % 10) + 1]>>

\* str(value)
StrOf(n) == IF n < 0 THEN <<"-">> \o DigitsOf(-n) ELSE DigitsOf(n)

DigitValue(c) == CHOOSE d \in 0..9 : Digits[d + 1] = c

RECURSIVE ValueOf(_)
ValueOf(s) ==
    IF s = <<>> THEN 0
    ELSE 10 * ValueOf(SubSeq(s, 1, Len(s) - 1)) + DigitValue(s[Len(s)])

\* a wrong int(): the last digit alone
IntOfLastDigit(s) == DigitValue(s[Len(s)])

\* int(text)
IntOf(s) == IF s[1] = "-" THEN -ValueOf(Tail(s)) ELSE ValueOf(s)

\* get_config(key)
GetConfig(c, key) ==
    IF key \in DOMAIN c THEN IntOf(c[key]) ELSE DefaultMaxRetries

\* a wrong INSERT: the row starts with one attempt counted
InsertJobCounted(J, id, mr, ra, t) ==
    [k \in DOMAIN J \cup {id} |->
        IF k = id
        THEN [command |-> CommandArg, timeout |-> TimeoutArg,
              state |-> "pending", attempts |-> 1, max_retries |-> mr,
              created_at |-> t, updated_at |-> t, error |-> NoText,
              output |-> NoText, run_at |-> ra,
              locked_by |-> NULL, locked_at |-> NULL]
        ELSE J[k]]

\* add_job's INSERT
InsertJob(J, id, mr, ra, t) ==
    [k \in DOMAIN J \cup {id} |->
        IF k = id
        THEN [command |-> CommandArg, timeout |-> TimeoutArg,
              state |-> "pending", attempts |-> 0, max_retries |-> mr,
              created_at |-> t, updated_at |-> t, error |-> NoText,
              output |-> NoText, run_at |-> ra,
              locked_by |-> NULL, locked_at |-> NULL]
        ELSE J[k]]

\* acquire_job's WHERE clause
Eligible(J, id, t) ==
    /\ J[id].state = "pending"
    /\ (J[id].run_at = NULL \/ J[id].run_at <= t)
    /\ \/ J[id].locked_by = NULL
       \/ (J[id].locked_at # NULL
           /\ J[id].locked_at < t - StaleMinutes * SecondsPerMinute)

\* a wrong SELECT: no ORDER BY
SelectCandidatesUnordered(J, t) == {id \in DOMAIN J : Eligible(J, id, t)}

\* acquire_job's SELECT ... ORDER BY created_at LIMIT 1: the rows it may
\* return (SQL leaves the order of rows with equal created_at open)
SelectCandidates(J, t) ==
    {id \in DOMAIN J :
        /\ Eligible(J, id, t)
        /\ \A k \in DOMAIN J :
              Eligible(J, k, t) => J[id].created_at <= J[k].created_at}

\* a wrong guard: WHERE id = ? alone
LockGuardAnyState(J, id) == id \in DOMAIN J

\* a wrong UPDATE: written whether or not the guard holds
LockUpdateUnguarded(J, id, w, t) ==
    IF id \in DOMAIN J
    THEN [J EXCEPT ![id].state = "processing", ![id].locked_by = w,
                   ![id].locked_at = t, ![id].updated_at = t]
    ELSE J

\* acquire_job's UPDATE ... WHERE id = ? AND state = 'pending'
LockGuard(J, id) == id \in DOMAIN J /\ J[id].state = "pending"

\* a wrong UPDATE: taking a job counts an attempt
LockUpdateCounting(J, id, w, t) ==
    IF LockGuard(J, id)
    THEN [J EXCEPT ![id].state = "processing", ![id].locked_by = w,
                   ![id].locked_at = t, ![id].updated_at = t,
                   ![id].attempts = @ + 1]
    ELSE J

LockUpdate(J, id, w, t) ==
    IF LockGuard(J, id)
    THEN [J EXCEPT ![id].state = "processing", ![id].locked_by = w,
                   ![id].locked_at = t, ![id].updated_at = t]
    ELSE J

\* a wrong UPDATE: completing a completed row counts an attempt
CompleteUpdateCounting(J, id, out, t) ==
    IF id \in DOMAIN J
    THEN [J EXCEPT ![id].state = "completed", ![id].updated_at = t,
                   ![id].output = out,
                   ![id].attempts = IF J[id].state = "completed"
                                    THEN J[id].attempts + 1
                                    ELSE J[id].attempts,
                   ![id].locked_by = NULL, ![id].locked_at = NULL]
    ELSE J

\* complete_job's UPDATE ... WHERE id = ?
CompleteUpdate(J, id, out, t) ==
    IF id \in DOMAIN J
    THEN [J EXCEPT ![id].state = "completed", ![id].updated_at = t,
                   ![id].output = out,
                   ![id].locked_by = NULL, ![id].locked_at = NULL]
    ELSE J

\* a wrong threshold: dead as soon as attempts reaches max_retries
FailUpdateEarlyDead(J, id, att, mr, err, t, base) ==
    IF id \notin DOMAIN J THEN J
    ELSE IF att + 1 >= mr
    THEN [J EXCEPT ![id].state = "dead", ![id].attempts = att + 1,
                   ![id].error = err, ![id].updated_at = t,
                   ![id].locked_by = NULL, ![id].locked_at = NULL]
    ELSE [J EXCEPT ![id].state = "pending", ![id].attempts = att + 1,
                   ![id].error = err, ![id].updated_at = t,
                   ![id].run_at = t + Pow(base, att + 1),
                   ![id].locked_by = NULL, ![id].locked_at = NULL]

\* a wrong fail_job: the job is rescheduled whatever its attempts
FailUpdateNeverDead(J, id, att, mr, err, t, base) ==
    IF id \notin DOMAIN J THEN J
    ELSE [J EXCEPT ![id].state = "pending", ![id].attempts = att + 1,
                   ![id].error = err, ![id].updated_at = t,
                   ![id].run_at = t + Pow(base, att + 1),
                   ![id].locked_by = NULL, ![id].locked_at = NULL]

\* fail_job's two UPDATEs; att and mr are the attempts and max_retries of
\* the row fail_job read, t its utcnow(), base the backoff_base it read
FailUpdate(J, id, att, mr, err, t, base) ==
    IF id \notin DOMAIN J THEN J
    ELSE IF att + 1 > mr
    THEN [J EXCEPT ![id].state = "dead", ![id].attempts = att + 1,
                   ![id].error = err, ![id].updated_at = t,
                   ![id].locked_by = NULL, ![id].locked_at = NULL]
    ELSE [J EXCEPT ![id].state = "pending", ![id].attempts = att + 1,
                   ![id].error = err, ![id].updated_at = t,
                   ![id].run_at = t + Pow(base, att + 1),
                   ![id].locked_by = NULL, ![id].locked_at = NULL]

\* a wrong retry: attempts kept
RetryUpdateKeepAttempts(J, id, t) ==
    IF id \in DOMAIN J
    THEN [J EXCEPT ![id].state = "pending",
                   ![id].error = NoText, ![id].updated_at = t,
                   ![id].run_at = NULL]
    ELSE J

\* a wrong check: only completed jobs are refused
RetryCheckLax(J, id) ==
    IF id \notin DOMAIN J THEN "NotFound"
    ELSE IF J[id].state = "completed" THEN "NotInDLQ"
    ELSE "ok"

\* retry_job's UPDATE ... WHERE id = ?
RetryUpdate(J, id, t) ==
    IF id \in DOMAIN J
    THEN [J EXCEPT ![id].state = "pending", ![id].attempts = 0,
                   ![id].error = NoText, ![id].updated_at = t,
                   ![id].run_at = NULL]
    ELSE J

\* retry_job's SELECT and the two checks before its UPDATE
RetryCheck(J, id) ==
    IF id \notin DOMAIN J THEN "NotFound"
    ELSE IF J[id].state # "dead" THEN "NotInDLQ"
    ELSE "ok"

\* a wrong sweep: every processing row, whatever its locked_at
StaleRowsAnyAge(J, cutoff) ==
    {id \in DOMAIN J : J[id].state = "processing"}

\* release_stale_locks' UPDATE ... WHERE locked_at < ? AND state = 'processing'
StaleRows(J, cutoff) ==
    {id \in DOMAIN J :
        /\ J[id].state = "processing"
        /\ J[id].locked_at # NULL
        /\ J[id].locked_at < cutoff}

\* a wrong sweep: locked_by is kept
ReleaseUpdateKeepOwner(J, cutoff, t) ==
    [id \in DOMAIN J |->
        IF id \in StaleRows(J, cutoff)
        THEN [J[id] EXCEPT !.state = "pending",
                           !.locked_at = NULL, !.updated_at = t]
        ELSE J[id]]

ReleaseUpdate(J, cutoff, t) ==
    [id \in DOMAIN J |->
        IF id \in StaleRows(J, cutoff)
        THEN [J[id] EXCEPT !.state = "pending", !.locked_by = NULL,
                           !.locked_at = NULL, !.updated_at = t]
        ELSE J[id]]

\* a wrong cleanup: every old row, whatever its state
OldRowsAnyState(J, cutoff) ==
    {id \in DOMAIN J : J[id].updated_at < cutoff}

\* cleanup_old_jobs' DELETE ... WHERE state = 'completed' AND updated_at < ?
OldRows(J, cutoff) ==
    {id \in DOMAIN J : J[id].state = "completed" /\ J[id].updated_at < cutoff}

CleanupDelete(J, cutoff) ==
    [id \in DOMAIN J \ OldRows(J, cutoff) |-> J[id]]

----------------------------------------------------------------------------
(* Bookkeeping shared by the actions *)

Call(op, id, arg, ret, err) ==
    [op |-> op, id |-> id, arg |-> arg, ret |-> ret, err |-> err,
     key |-> NoText]

Ok == "ok"

\* a call on the config table names a key
ConfigCall(op, key, arg, ret) ==
    [Call(op, NULL, arg, ret, Ok) EXCEPT !.key = key]

\* no row: what a caller holds of the jobs table before its SELECT
NoRow == [command |-> NoText, timeout |-> NULL, state |-> NoText, attempts |-> NULL,
          max_retries |-> NULL, created_at |-> NULL, updated_at |-> NULL,
          error |-> NoText, output |-> NoText, run_at |-> NULL,
          locked_by |-> NULL, locked_at |-> NULL]

\* row is job_dict: the row acquire_job's SELECT fetched, which it returns
\* no result: subprocess.run has not been called
NoResult == [raised |-> NoText, code |-> NULL, stderr |-> NoText]

\* res is what subprocess.run did in _execute_job
IdleWorker == [pc |-> "idle", id |-> NULL, t |-> NULL, att |-> NULL,
               mr |-> NULL, got |-> NULL, row |-> NoRow, res |-> NoResult]

IdleClient == [pc |-> "idle", id |-> NULL]

\* no worker and no operator is inside a store call
\* a worker process: alive is Process.is_alive(), running is Worker.running,
\* sigterm a SIGTERM sent and not yet handled; signalled, exited and killed
\* remember terminate(), the return of run() and kill(); flight is the job
\* the worker held when it handled the signal, lost the job whose
\* complete_job or fail_job raised
NotStarted == [alive |-> FALSE, running |-> FALSE, sigterm |-> FALSE,
               signalled |-> FALSE, exited |-> FALSE, killed |-> FALSE,
               flight |-> NULL, lost |-> NULL]

\* Process.start() and Worker.__init__
Started == [NotStarted EXCEPT !.alive = TRUE, !.running = TRUE]

\* WorkerManager.__init__, and the manager outside stop_workers
NewManager == [workers |-> <<>>, pc |-> "idle", deadline |-> NULL, i |-> NULL]

\* start_workers(count): the processes 1..count, appended to self.workers
StartedManager(m, count) ==
    [m EXCEPT !.workers = m.workers \o [i \in 1..count |-> i]]

Quiet == (\A w \in Workers : wk[w].pc = "idle") /\ cli.pc = "idle"

Init ==
    /\ jobs = <<>>
    /\ config = [max_retries |-> StrOf(DefaultMaxRetries),
                 backoff_base |-> StrOf(DefaultBackoffBase)]
    /\ now = 0
    /\ wk = [w \in Workers |-> IdleWorker]
    /\ cli = IdleClient
    /\ last = Call("init", NULL, NULL, NULL, Ok)
    /\ cyc = [j \in JobIds |-> Tainted]
    /\ proc = [w \in Workers |-> Started]
    /\ mgr = StartedManager(NewManager, MaxWorkers)

\* the same store, with a manager that has started no worker yet
PoolInit ==
    /\ jobs = <<>>
    /\ config = [max_retries |-> StrOf(DefaultMaxRetries),
                 backoff_base |-> StrOf(DefaultBackoffBase)]
    /\ now = 0
    /\ wk = [w \in Workers |-> IdleWorker]
    /\ cli = IdleClient
    /\ last = Call("init", NULL, NULL, NULL, Ok)
    /\ cyc = [j \in JobIds |-> Tainted]
    /\ proc = [w \in Workers |-> NotStarted]
    /\ mgr = NewManager

----------------------------------------------------------------------------
(* The clock *)

StaleSeconds == StaleMinutes * SecondsPerMinute

Advance(d) ==
    /\ now' = now + d
    /\ last' = Call("sleep", NULL, d, NULL, Ok)
    /\ UNCHANGED <<jobs, config, wk, cli, cyc, proc, mgr>>

\* seconds pass, and five-minute waits
Clock ==
    \/ now % StaleSeconds < MaxSeconds /\ Advance(1)
    \/ now \div StaleSeconds < MaxWindows /\ Advance(StaleSeconds)

\* waits just over the stale threshold
LongClock ==
    now < MaxWindows * (StaleSeconds + 1) /\ Advance(StaleSeconds + 1)

----------------------------------------------------------------------------
(* JobStore's methods, each called and returning with no other call in     *)
(* between                                                                 *)

\* add_job(command, job_id, max_retries, run_at)
AddJob(id, mr, ra) ==
    /\ IF id \in DOMAIN jobs
       THEN /\ last' = Call("add_job", id, mr, NULL, "DuplicateID")
            /\ UNCHANGED <<jobs, cyc>>
       ELSE /\ jobs' = InsertJob(jobs, id,
                          IF mr = NULL THEN GetConfig(config, "max_retries")
                                       ELSE mr,
                          ra, now)
            /\ last' = Call("add_job", id, mr, id, Ok)
            /\ cyc' = [cyc EXCEPT ![id] = 0]
    /\ UNCHANGED <<config, now, wk, cli, proc, mgr>>

\* acquire_job(worker_id)
AcquireJob(w) ==
    /\ IF SelectCandidates(jobs, now) = {}
       THEN /\ last' = Call("acquire_job", NULL, w, NULL, Ok)
            /\ UNCHANGED jobs
       ELSE \E id \in SelectCandidates(jobs, now) :
            /\ jobs' = LockUpdate(jobs, id, w, now)
            /\ last' = Call("acquire_job", id, w,
                            IF LockGuard(jobs, id) THEN id ELSE NULL, Ok)
    /\ UNCHANGED <<config, now, wk, cli, cyc, proc, mgr>>

\* complete_job(job_id, output)
CompleteJob(id, out) ==
    /\ jobs' = CompleteUpdate(jobs, id, out, now)
    /\ last' = Call("complete_job", id, NULL, NULL, Ok)
    /\ cyc' = [cyc EXCEPT ![id] = Tainted]
    /\ UNCHANGED <<config, now, wk, cli, proc, mgr>>

\* a wrong fail_job: an unknown id is passed over in silence
FailJobSilent(id, err) ==
    /\ IF id \notin DOMAIN jobs
       THEN /\ last' = Call("fail_job", id, NULL, NULL, Ok)
            /\ UNCHANGED <<jobs, cyc>>
       ELSE /\ jobs[id].attempts < jobs[id].max_retries + MaxOverrun
            /\ jobs' = FailUpdate(jobs, id, jobs[id].attempts,
                                  jobs[id].max_retries, err, now,
                                  GetConfig(config, "backoff_base"))
            /\ last' = Call("fail_job", id, NULL, NULL, Ok)
            /\ cyc' = [cyc EXCEPT ![id] =
                         IF jobs[id].state = "processing" /\ cyc[id] # Tainted
                         THEN cyc[id] + 1 ELSE Tainted]
    /\ UNCHANGED <<config, now, wk, cli, proc, mgr>>

\* fail_job(job_id, error)
FailJob(id, err) ==
    /\ IF id \notin DOMAIN jobs
       THEN /\ last' = Call("fail_job", id, NULL, NULL, "NotFound")
            /\ UNCHANGED <<jobs, cyc>>
       ELSE /\ jobs[id].attempts < jobs[id].max_retries + MaxOverrun
            /\ jobs' = FailUpdate(jobs, id, jobs[id].attempts,
                                  jobs[id].max_retries, err, now,
                                  GetConfig(config, "backoff_base"))
            /\ last' = Call("fail_job", id, NULL, NULL, Ok)
            /\ cyc' = [cyc EXCEPT ![id] =
                         IF jobs[id].state = "processing" /\ cyc[id] # Tainted
                         THEN cyc[id] + 1 ELSE Tainted]
    /\ UNCHANGED <<config, now, wk, cli, proc, mgr>>

\* retry_job(job_id)
RetryJob(id) ==
    /\ IF RetryCheck(jobs, id) # Ok
       THEN /\ last' = Call("retry_job", id, NULL, NULL, RetryCheck(jobs, id))
            /\ UNCHANGED <<jobs, cyc>>
       ELSE /\ jobs' = RetryUpdate(jobs, id, now)
            /\ last' = Call("retry_job", id, NULL, NULL, Ok)
            /\ cyc' = [cyc EXCEPT ![id] = 0]
    /\ UNCHANGED <<config, now, wk, cli, proc, mgr>>

\* release_stale_locks(minutes)
ReleaseStaleLocks(minutes) ==
    /\ jobs' = ReleaseUpdate(jobs, now - minutes * SecondsPerMinute, now)
    /\ last' = Call("release_stale_locks", NULL, minutes,
                    Cardinality(StaleRows(jobs, now - minutes * SecondsPerMinute)),
                    Ok)
    /\ UNCHANGED <<config, now, wk, cli, cyc, proc, mgr>>

\* cleanup_old_jobs(days)
CleanupOldJobs(days) ==
    /\ jobs' = CleanupDelete(jobs, now - days * SecondsPerDay)
    /\ last' = Call("cleanup_old_jobs", NULL, days,
                    Cardinality(OldRows(jobs, now - days * SecondsPerDay)), Ok)
    /\ cyc' = [j \in JobIds |->
                 IF j \in OldRows(jobs, now - days * SecondsPerDay)
                 THEN Tainted ELSE cyc[j]]
    /\ UNCHANGED <<config, now, wk, cli, proc, mgr>>

\* a wrong set_config: the new max_retries reaches the existing rows
SetConfigRetroactive(key, value) ==
    /\ config' = [config EXCEPT ![key] = StrOf(value)]
    /\ jobs' = [j \in DOMAIN jobs |->
                   IF key = "max_retries"
                   THEN [jobs[j] EXCEPT !.max_retries = value]
                   ELSE jobs[j]]
    /\ last' = ConfigCall("set_config", key, value, NULL)
    /\ UNCHANGED <<now, wk, cli, cyc, proc, mgr>>

\* set_config(key, value)
SetConfig(key, value) ==
    /\ config' = [config EXCEPT ![key] = StrOf(value)]
    /\ last' = ConfigCall("set_config", key, value, NULL)
    /\ UNCHANGED <<jobs, now, wk, cli, cyc, proc, mgr>>

(* The arguments the model calls them with *)

MaxRetriesArgs == {NULL} \cup (0..MaxRetriesArg)
RunAtArgs == {NULL, now + 1}
ErrorArgs == {"Exit code 1"}
OutputArgs == {"out"}
MinutesArgs == {StaleMinutes, 2 * StaleMinutes}
DaysArgs == {0, 1}
ConfigArgs == {2, DefaultMaxRetries}
\* a backoff_base of two digits besides
BackoffArgs == ConfigArgs \cup {10}
\* dead at the first failure, or after one retry
StoreRetriesArgs == {0, 1}

StoreAdd == \E id \in JobIds, mr \in StoreRetriesArgs : AddJob(id, mr, NULL)
StoreAcquire == AcquireJob(1)
StoreComplete == \E id \in JobIds, out \in OutputArgs : CompleteJob(id, out)
StoreFail == \E id \in JobIds, err \in ErrorArgs : FailJob(id, err)
StoreRetry == \E id \in JobIds : RetryJob(id)
StoreRelease == \E m \in MinutesArgs : ReleaseStaleLocks(m)
StoreCleanup == \E d \in DaysArgs : CleanupOldJobs(d)

StoreNext ==
    \/ StoreAdd
    \/ StoreAcquire
    \/ StoreComplete
    \/ StoreFail
    \/ StoreRetry
    \/ StoreRelease
    \/ StoreCleanup
    \/ LongClock

SpecStore == Init /\ [][StoreNext]_vars

(* One job, every argument, and the configuration changing *)

\* waits long enough for any backoff delay of the model to pass
JobClock ==
    now < MaxWaits * (StaleSeconds + 1) /\ Advance(StaleSeconds + 1)

JobAdd == \E mr \in MaxRetriesArgs, ra \in RunAtArgs : AddJob(1, mr, ra)
JobAcquire == AcquireJob(1)
JobComplete == \E out \in OutputArgs : CompleteJob(1, out)
JobFail == \E err \in ErrorArgs : FailJob(1, err)
JobRetry == RetryJob(1)
JobRelease == \E m \in MinutesArgs : ReleaseStaleLocks(m)
JobSetConfig == \E key \in DOMAIN config, v \in ConfigArgs : SetConfig(key, v)

JobNext ==
    \/ JobAdd
    \/ JobAcquire
    \/ JobComplete
    \/ JobFail
    \/ JobRetry
    \/ JobRelease
    \/ JobSetConfig
    \/ JobClock

SpecJob == Init /\ [][JobNext]_vars

(* One job whose max_retries is any integer that add_job stores: the      *)
(* argument is not validated, and a negative one is inserted as it is     *)

\* -2 rather than -1, which stands for SQL NULL in the model
BudgetRetriesArgs == {-2, 0, 1}

BudgetAdd == \E mr \in BudgetRetriesArgs : AddJob(1, mr, NULL)

BudgetNext ==
    \/ BudgetAdd
    \/ JobAcquire
    \/ JobComplete
    \/ JobFail
    \/ JobRetry
    \/ JobRelease
    \/ JobClock

SpecBudget == Init /\ [][BudgetNext]_vars

(* The configuration, with the calls that read it: add_job reads          *)
(* max_retries, fail_job reads backoff_base.                               *)

ConfigAdd == \E mr \in MaxRetriesArgs : AddJob(1, mr, NULL)
ConfigSet ==
    \E key \in DOMAIN config :
        \E v \in IF key = "backoff_base" THEN BackoffArgs ELSE ConfigArgs :
            SetConfig(key, v)

ConfigNext ==
    \/ ConfigAdd
    \/ JobFail
    \/ JobRetry
    \/ ConfigSet
    \/ JobClock

SpecConfig == Init /\ [][ConfigNext]_vars

----------------------------------------------------------------------------
(* JobStore's methods as concurrent callers run them.  sqlite3 opens a     *)
(* transaction at the first UPDATE/INSERT/DELETE of a connection, not at a *)
(* SELECT, so a method that SELECTs and then UPDATEs is two steps, and     *)
(* other connections may commit between them.  The local variables a       *)
(* caller keeps between its steps are in wk (a worker) and cli (an         *)
(* operator running `dlq retry`).                                          *)

\* acquire_job's return value: job_dict with "state" overwritten
ReturnedJob(row) == [row EXCEPT !.state = "processing"]

\* acquire_job, first half: utcnow() and the SELECT.  from is the caller's
\* position before the call, miss its position after `return None`
AcqSelect(w, from, miss) ==
    /\ wk[w].pc = from
    /\ IF SelectCandidates(jobs, now) = {}
       THEN /\ wk' = [wk EXCEPT ![w] = [IdleWorker EXCEPT !.pc = miss]]
            /\ last' = Call("acquire_job", NULL, w, NULL, Ok)
       ELSE \E id \in SelectCandidates(jobs, now) :
            /\ wk' = [wk EXCEPT ![w] = [IdleWorker EXCEPT
                          !.pc = "lock", !.id = id, !.t = now,
                          !.row = jobs[id]]]
            /\ last' = Call("acquire_select", id, w, NULL, Ok)
    /\ UNCHANGED <<jobs, config, now, cli, cyc, proc, mgr>>

\* acquire_job, second half: the guarded UPDATE and the total_changes test.
\* won and lost are the caller's positions after it returns the job or None
AcqLock(w, won, lost) ==
    /\ wk[w].pc = "lock"
    /\ jobs' = LockUpdate(jobs, wk[w].id, w, wk[w].t)
    /\ IF LockGuard(jobs, wk[w].id)
       THEN /\ wk' = [wk EXCEPT ![w].pc = won, ![w].got = wk[w].id,
                                ![w].row = ReturnedJob(wk[w].row)]
            /\ last' = Call("acquire_job", wk[w].id, w, wk[w].id, Ok)
       ELSE /\ wk' = [wk EXCEPT ![w] = [IdleWorker EXCEPT !.pc = lost]]
            /\ last' = Call("acquire_job", wk[w].id, w, NULL, Ok)
    /\ UNCHANGED <<config, now, cli, cyc, proc, mgr>>

(* Worker.run: one iteration is release_stale_locks, acquire_job, and for  *)
(* a job _execute_job followed by complete_job or fail_job                 *)

\* `while self.running:` and release_stale_locks()
WorkerRelease(w) ==
    /\ proc[w].alive /\ proc[w].running
    /\ wk[w].pc = "idle"
    /\ jobs' = ReleaseUpdate(jobs, now - StaleSeconds, now)
    /\ wk' = [wk EXCEPT ![w].pc = "acquire"]
    /\ last' = Call("release_stale_locks", NULL, StaleMinutes,
                    Cardinality(StaleRows(jobs, now - StaleSeconds)), Ok)
    /\ UNCHANGED <<config, now, cli, cyc, proc, mgr>>

WorkerSelect(w) == proc[w].alive /\ AcqSelect(w, "acquire", "idle")

WorkerLock(w) == proc[w].alive /\ AcqLock(w, "exec", "idle")

(* _execute_job: what subprocess.run(command, shell=True,                *)
(* capture_output=True, text=True, timeout=timeout) can do.  It returns   *)
(* the exit code and the decoded output of the shell; it raises           *)
(* TimeoutExpired when the job has a timeout and the command outlives it; *)
(* it raises another exception when the command cannot be started (code   *)
(* NULL) and when the command has run but its output cannot be decoded    *)
(* as text (the exit code is then lost to the caller).                     *)

Returned(code, stderr) ==
    [raised |-> "none", code |-> code, stderr |-> stderr]

Raised(exception, code) ==
    [raised |-> exception, code |-> code, stderr |-> ""]

\* the command exits with 0 or with 1 and writes nothing to stderr
ExitResults == {Returned(0, ""), Returned(1, "")}

RunResults ==
    {Returned(0, ""), Returned(1, ""), Returned(1, "err"),
     Raised("TimeoutExpired", NULL),
     Raised("Exception", NULL), Raised("Exception", 0)}

\* f"Exit code {returncode}", then f": {error}" when stderr is not empty
ExitCodeText(code, stderr) ==
    IF code = 1
    THEN (IF stderr = "" THEN "Exit code 1" ELSE "Exit code 1: err")
    ELSE (IF stderr = "" THEN "Exit code N" ELSE "Exit code N: err")

\* f"Job timed out after {timeout} seconds"
TimeoutText(timeout) ==
    IF timeout = TimeoutArg THEN "Job timed out after 1 seconds"
                            ELSE "Job timed out after None seconds"

\* _execute_job's (success, output, error)
ExecuteJob(row, res) ==
    IF res.raised = "TimeoutExpired"
    THEN [success |-> FALSE, output |-> NoText,
          error |-> TimeoutText(row.timeout)]
    ELSE IF res.raised = "Exception"
    THEN [success |-> FALSE, output |-> NoText,
          error |-> "Execution error: e"]
    ELSE IF res.code # 0
    THEN [success |-> FALSE, output |-> "out",
          error |-> ExitCodeText(res.code, res.stderr)]
    ELSE [success |-> TRUE, output |-> "out", error |-> NoText]

\* the error texts _execute_job can return
ExecErrors == {ExecuteJob(InsertJob(<<>>, 1, 0, NULL, 0)[1], res).error :
                  res \in RunResults} \ {NoText}

\* Worker.run: success, output, error = self._execute_job(job)
WorkerExecute(w, res) ==
    /\ proc[w].alive
    /\ wk[w].pc = "exec"
    /\ res.raised = "TimeoutExpired" => wk[w].row.timeout # NULL
    /\ wk' = [wk EXCEPT ![w].pc = "report", ![w].res = res]
    /\ UNCHANGED <<jobs, config, now, cli, last, cyc, proc, mgr>>

\* _execute_job returned success: complete_job
WorkerComplete(w, out) ==
    /\ proc[w].alive
    /\ wk[w].pc = "report"
    /\ ExecuteJob(wk[w].row, wk[w].res).success
    /\ out = ExecuteJob(wk[w].row, wk[w].res).output
    /\ jobs' = CompleteUpdate(jobs, wk[w].got, out, now)
    /\ wk' = [wk EXCEPT ![w] = IdleWorker]
    /\ last' = Call("complete_job", wk[w].got, w, NULL, Ok)
    /\ UNCHANGED <<config, now, cli, cyc, proc, mgr>>

\* _execute_job returned failure: fail_job, first half (the SELECT, the
\* attempts it computes, its utcnow()); the ValueError of a missing row is
\* caught by run, which backs off
WorkerFailSelect(w) ==
    /\ proc[w].alive
    /\ wk[w].pc = "report"
    /\ ~ExecuteJob(wk[w].row, wk[w].res).success
    /\ IF wk[w].got \notin DOMAIN jobs
       THEN /\ wk' = [wk EXCEPT ![w] = [IdleWorker EXCEPT !.pc = "backoff"]]
            /\ last' = Call("fail_job", wk[w].got, w, NULL, "NotFound")
       ELSE /\ jobs[wk[w].got].attempts
                   < jobs[wk[w].got].max_retries + MaxOverrun
            /\ wk' = [wk EXCEPT ![w].pc = "fail", ![w].t = now,
                                ![w].att = jobs[wk[w].got].attempts,
                                ![w].mr = jobs[wk[w].got].max_retries]
            /\ last' = Call("fail_select", wk[w].got, w, NULL, Ok)
    /\ UNCHANGED <<jobs, config, now, cli, cyc, proc, mgr>>

\* fail_job, second half: get_config("backoff_base") and the UPDATE
WorkerFailUpdate(w, err) ==
    /\ proc[w].alive
    /\ wk[w].pc = "fail"
    /\ err = ExecuteJob(wk[w].row, wk[w].res).error
    /\ jobs' = FailUpdate(jobs, wk[w].got, wk[w].att, wk[w].mr, err, wk[w].t,
                          GetConfig(config, "backoff_base"))
    /\ wk' = [wk EXCEPT ![w] = IdleWorker]
    /\ last' = Call("fail_job", wk[w].got, w, NULL, Ok)
    /\ UNCHANGED <<config, now, cli, cyc, proc, mgr>>

\* run's `except Exception`: logger.error, time.sleep(5), the next iteration
WorkerBackoff(w) ==
    /\ proc[w].alive
    /\ wk[w].pc = "backoff"
    /\ wk' = [wk EXCEPT ![w] = IdleWorker]
    /\ UNCHANGED <<jobs, config, now, cli, last, cyc, proc, mgr>>

\* Worker._handle_shutdown, run by the process when a SIGTERM reaches it
WorkerHandleShutdown(w) ==
    /\ proc[w].alive /\ proc[w].sigterm
    /\ proc' = [proc EXCEPT ![w].running = FALSE, ![w].sigterm = FALSE,
                            ![w].flight = wk[w].got]
    /\ UNCHANGED <<jobs, config, now, wk, cli, last, cyc, mgr>>

\* a wrong loop: it ends wherever the flag is seen false
WorkerExitAnywhere(w) ==
    /\ proc[w].alive /\ ~proc[w].running
    /\ proc' = [proc EXCEPT ![w].alive = FALSE, ![w].exited = TRUE]
    /\ last' = Call("run", NULL, w, NULL, Ok)
    /\ UNCHANGED <<jobs, config, now, wk, cli, cyc, mgr>>

\* `while self.running:` is false: run returns and the process ends
WorkerExit(w) ==
    /\ proc[w].alive /\ ~proc[w].running
    /\ wk[w].pc = "idle"
    /\ proc' = [proc EXCEPT ![w].alive = FALSE, ![w].exited = TRUE]
    /\ last' = Call("run", NULL, w, NULL, Ok)
    /\ UNCHANGED <<jobs, config, now, wk, cli, cyc, mgr>>

\* a wrong loop: the error of a store call ends the process
WorkerStoreErrorFatal(w) ==
    /\ proc[w].alive
    /\ \/ wk[w].pc = "idle" /\ proc[w].running
       \/ wk[w].pc \in {"acquire", "lock", "report", "fail"}
    /\ proc' = [proc EXCEPT ![w].alive = FALSE]
    /\ last' = Call("store_error", wk[w].got, w, NULL, "OperationalError")
    /\ UNCHANGED <<jobs, config, now, wk, cli, cyc, mgr>>

\* a store call of the iteration raises (sqlite3.OperationalError: the
\* database is locked or unreachable); its transaction is rolled back and
\* run's `except Exception` takes over
WorkerStoreError(w) ==
    /\ proc[w].alive
    /\ \/ wk[w].pc = "idle" /\ proc[w].running
       \/ wk[w].pc \in {"acquire", "lock", "report", "fail"}
    /\ wk' = [wk EXCEPT ![w] = [IdleWorker EXCEPT !.pc = "backoff"]]
    /\ proc' = [proc EXCEPT ![w].lost =
                   IF wk[w].pc \in {"report", "fail"} THEN wk[w].got ELSE @]
    /\ last' = Call("store_error", wk[w].got, w, NULL, "OperationalError")
    /\ UNCHANGED <<jobs, config, now, cli, cyc, mgr>>

\* the process dies where it stands (a crash, a SIGKILL from outside)
WorkerDie(w) ==
    /\ proc[w].alive
    /\ proc' = [proc EXCEPT ![w].alive = FALSE]
    /\ UNCHANGED <<jobs, config, now, wk, cli, last, cyc, mgr>>

\* the steps of one worker's loop
WorkerStep(w) ==
    \/ WorkerRelease(w)
    \/ WorkerSelect(w)
    \/ WorkerLock(w)
    \/ \E res \in ExitResults : WorkerExecute(w, res)
    \/ \E out \in OutputArgs : WorkerComplete(w, out)
    \/ WorkerFailSelect(w)
    \/ \E err \in ExecErrors : WorkerFailUpdate(w, err)
    \/ WorkerBackoff(w)

(* WorkerManager *)

\* start_workers(count)
StartWorkers(count) ==
    /\ mgr.pc = "idle"
    /\ \A w \in 1..count : proc[w] = NotStarted
    /\ proc' = [w \in Workers |-> IF w <= count THEN Started ELSE proc[w]]
    /\ mgr' = StartedManager(mgr, count)
    /\ last' = Call("start_workers", NULL, count, NULL, Ok)
    /\ UNCHANGED <<jobs, config, now, wk, cli, cyc>>

\* the processes of self.workers, as a set
Tracked(m) == {m.workers[i] : i \in 1..Len(m.workers)}

\* count_active_workers()
CountActive(m, p) == Cardinality({w \in Tracked(m) : p[w].alive})

CountActiveWorkers ==
    /\ mgr.pc = "idle"
    /\ last' = Call("count_active_workers", NULL, NULL,
                    CountActive(mgr, proc), Ok)
    /\ UNCHANGED <<jobs, config, now, wk, cli, cyc, proc, mgr>>

\* stop_workers, first loop: terminate() for every process that is alive;
\* then deadline = time.time() + 30
StopSignal ==
    /\ mgr.pc = "idle"
    /\ proc' = [w \in Workers |->
                   IF w \in Tracked(mgr) /\ proc[w].alive
                   THEN [proc[w] EXCEPT !.sigterm = TRUE, !.signalled = TRUE]
                   ELSE proc[w]]
    /\ mgr' = [mgr EXCEPT !.pc = "join", !.deadline = now + GraceSeconds,
                          !.i = 1]
    /\ UNCHANGED <<jobs, config, now, wk, cli, last, cyc>>

\* a wrong join: it returns at once
JoinReturnsAtOnce(w) == TRUE

\* process.join(timeout=remaining) has returned, or remaining <= 0
JoinReturns(w) == ~proc[w].alive \/ now >= mgr.deadline

\* stop_workers, second loop, one process: join, then kill() if it is
\* still alive
StopJoin ==
    /\ mgr.pc = "join"
    /\ mgr.i <= Len(mgr.workers)
    /\ JoinReturns(mgr.workers[mgr.i])
    /\ proc' = [proc EXCEPT ![mgr.workers[mgr.i]] =
                   IF @.alive THEN [@ EXCEPT !.alive = FALSE, !.killed = TRUE]
                   ELSE @]
    /\ mgr' = [mgr EXCEPT !.i = @ + 1]
    /\ UNCHANGED <<jobs, config, now, wk, cli, last, cyc>>

\* stop_workers, the end: self.workers.clear()
StopClear ==
    /\ mgr.pc = "join"
    /\ mgr.i > Len(mgr.workers)
    /\ mgr' = NewManager
    /\ last' = Call("stop_workers", NULL, NULL, NULL, Ok)
    /\ UNCHANGED <<jobs, config, now, wk, cli, cyc, proc>>

(* An operator's `queuectl dlq retry` *)

\* retry_job, first half: the SELECT and the two checks
RetrySelect(id) ==
    /\ cli.pc = "idle"
    /\ IF RetryCheck(jobs, id) # Ok
       THEN /\ last' = Call("retry_job", id, NULL, NULL, RetryCheck(jobs, id))
            /\ UNCHANGED cli
       ELSE /\ cli' = [pc |-> "retry", id |-> id]
            /\ last' = Call("retry_select", id, NULL, NULL, Ok)
    /\ UNCHANGED <<jobs, config, now, wk, cyc, proc, mgr>>

\* retry_job, second half: utcnow() and the UPDATE
RetryWrite ==
    /\ cli.pc = "retry"
    /\ jobs' = RetryUpdate(jobs, cli.id, now)
    /\ cli' = IdleClient
    /\ last' = Call("retry_job", cli.id, NULL, NULL, Ok)
    /\ UNCHANGED <<config, now, wk, cyc, proc, mgr>>

(* The system: worker processes and the command line against one database *)

LoopJobIds == {1}

Enqueue == \E id \in LoopJobIds, mr \in 0..MaxRetriesArg, ra \in RunAtArgs :
               AddJob(id, mr, ra)
Release == \E w \in Workers : WorkerRelease(w)
Select == \E w \in Workers : WorkerSelect(w)
Lock == \E w \in Workers : WorkerLock(w)
Execute == \E w \in Workers, res \in ExitResults : WorkerExecute(w, res)
Complete == \E w \in Workers, out \in OutputArgs : WorkerComplete(w, out)
FailSelect == \E w \in Workers : WorkerFailSelect(w)
FailWrite == \E w \in Workers, err \in ExecErrors : WorkerFailUpdate(w, err)
Backoff == \E w \in Workers : WorkerBackoff(w)
DlqRetry == \E id \in LoopJobIds : RetrySelect(id)
Cleanup == CleanupOldJobs(0)

Next ==
    \/ Enqueue
    \/ Release
    \/ Select
    \/ Lock
    \/ Execute
    \/ Complete
    \/ FailSelect
    \/ FailWrite
    \/ Backoff
    \/ DlqRetry
    \/ RetryWrite
    \/ Cleanup
    \/ Clock

Spec == Init /\ [][Next]_vars

(* The worker loops alone, with every result of subprocess.run.           *)
RunExecute == \E w \in Workers, res \in RunResults : WorkerExecute(w, res)

WorkerNext ==
    \/ Enqueue
    \/ Release
    \/ Select
    \/ Lock
    \/ RunExecute
    \/ Complete
    \/ FailSelect
    \/ FailWrite
    \/ Clock

SpecWorker == Init /\ [][WorkerNext]_vars

(* A WorkerManager, the workers it starts and stops, and a store whose     *)
(* calls can fail.                                                         *)

\* waits as long as stop_workers' grace period
PoolClock ==
    now < (MaxWindows + 1) * GraceSeconds /\ Advance(GraceSeconds)

\* one job, dead at its first failure
PoolEnqueue == AddJob(1, 0, NULL)
\* the manager starts one worker or two
PoolCounts == {1, 2}
PoolStart == \E count \in PoolCounts : StartWorkers(count)
StoreError == \E w \in Workers : WorkerStoreError(w)
HandleShutdown == \E w \in Workers : WorkerHandleShutdown(w)
Exit == \E w \in Workers : WorkerExit(w)

PoolNext ==
    \/ PoolEnqueue
    \/ PoolStart
    \/ Release
    \/ Select
    \/ Lock
    \/ Execute
    \/ Complete
    \/ FailSelect
    \/ FailWrite
    \/ StoreError
    \/ Backoff
    \/ HandleShutdown
    \/ Exit
    \/ StopSignal
    \/ StopJoin
    \/ StopClear
    \/ CountActiveWorkers
    \/ PoolClock

SpecPool == PoolInit /\ [][PoolNext]_vars

(* Worker loops of which one may die, under fair scheduling: a worker      *)
(* that is alive keeps taking the steps of its loop, and time passes.      *)

CrashEnqueue == AddJob(1, 0, NULL)
\* a worker dies while another one is alive
Die == \E w \in Workers :
           (\E v \in Workers \ {w} : proc[v].alive) /\ WorkerDie(w)

CrashNext ==
    \/ CrashEnqueue
    \/ Release
    \/ Select
    \/ Lock
    \/ Execute
    \/ Complete
    \/ FailSelect
    \/ FailWrite
    \/ Die
    \/ JobClock

CrashFair ==
    /\ \A w \in Workers : WF_vars(WorkerStep(w))
    /\ WF_vars(JobClock)

SpecCrash == Init /\ [][CrashNext]_vars /\ CrashFair

(* The same loops, under the same fairness, with a job that may be        *)
(* scheduled for later and may be retried after a failure                  *)

\* the job is created at the time from which the clock counts
FairEnqueue ==
    /\ now = 0
    /\ \E mr \in 0..MaxRetriesArg, ra \in RunAtArgs : AddJob(1, mr, ra)

FairNext ==
    \/ FairEnqueue
    \/ Release
    \/ Select
    \/ Lock
    \/ Execute
    \/ Complete
    \/ FailSelect
    \/ FailWrite
    \/ Die
    \/ JobClock

SpecFair == Init /\ [][FairNext]_vars /\ CrashFair

(* A race: jobs are enqueued, then every worker calls acquire_job once *)

RaceStarted == \E w \in Workers : wk[w].pc # "idle"
RaceDone == \A w \in Workers : wk[w].pc = "done"

RaceEnqueue ==
    /\ ~RaceStarted
    /\ \E id \in JobIds \ DOMAIN jobs, mr \in 0..MaxRetriesArg :
           AddJob(id, mr, NULL)
RaceSelect == \E w \in Workers : AcqSelect(w, "idle", "done")
RaceLock == \E w \in Workers : AcqLock(w, "done", "done")

RaceNext ==
    \/ RaceEnqueue
    \/ RaceSelect
    \/ RaceLock
    \/ Clock

SpecRace == Init /\ [][RaceNext]_vars

----------------------------------------------------------------------------
(* The claims *)

\* the jobs a worker holds: from its successful acquire_job until its own
\* complete_job or fail_job has written
Holds(w, j) == wk[w].pc \in {"exec", "report", "fail"} /\ wk[w].got = j

Holders(j) == {w \in Workers : Holds(w, j)}

Leased == {j \in DOMAIN jobs : jobs[j].state = "processing"}

Winners == {w \in Workers : wk[w].got # NULL}

\* C1 (SpecRace): when every worker has called acquire_job once against a
\* store holding one eligible pending job, in any interleaving of the SELECTs
\* and guarded UPDATEs, exactly one call returned the job, every other call
\* returned None, and the job is processing and locked_by the one winner.
C1_AtMostOneHolder ==
    (RaceDone /\ Cardinality(DOMAIN jobs) = 1) =>
        \E w \in Workers :
            /\ wk[w].got \in DOMAIN jobs
            /\ \A v \in Workers \ {w} : wk[v].got = NULL
            /\ jobs[wk[w].got].state = "processing"
            /\ jobs[wk[w].got].locked_by = w

\* C1's case: the race is over one job, and the call that returned last had
\* selected the job and lost the guarded UPDATE
C1_Witness ==
    /\ RaceDone
    /\ Cardinality(DOMAIN jobs) = 1
    /\ last.op = "acquire_job" /\ last.id \in DOMAIN jobs /\ last.ret = NULL

\* C2 (Spec): no job is held by two workers at once, stale-lease reclamation
\* while the first holder is still executing included.
C2_MutualExclusion == \A j \in JobIds : Cardinality(Holders(j)) <= 1

C4_ScheduledGating ==
    (last.op = "acquire_job" /\ last.ret # NULL /\ last.ret \in DOMAIN jobs
        /\ jobs[last.ret].state = "processing") =>
        (jobs[last.ret].run_at = NULL \/ jobs[last.ret].run_at <= now)

\* b to the power a, counted: the number of functions from 1..a to 1..b
Power(b, a) == Cardinality([1..a -> 1..b])

\* C5 (SpecJob): a job that has gone through k acquire-then-fail_job cycles
\* and nothing else has attempts = k; while k <= max_retries it is not dead,
\* and it is pending right after the k-th failure; at k = max_retries + 1 it
\* is dead, and there is no later cycle.
C5_DlqThreshold ==
    \A j \in DOMAIN jobs :
        cyc[j] # Tainted =>
            /\ jobs[j].attempts = cyc[j]
            /\ cyc[j] <= jobs[j].max_retries + 1
            /\ cyc[j] <= jobs[j].max_retries =>
                  jobs[j].state \in {"pending", "processing"}
            /\ (cyc[j] <= jobs[j].max_retries /\ last.op = "fail_job"
                   /\ last.id = j /\ last.err = Ok) =>
                  jobs[j].state = "pending"
            /\ cyc[j] = jobs[j].max_retries + 1 => jobs[j].state = "dead"

\* C5's case: max_retries + 1 >= 3 failures in a row have just put a job in
\* the DLQ
C5_Witness ==
    \E j \in DOMAIN jobs :
        /\ last.op = "fail_job" /\ last.id = j
        /\ jobs[j].max_retries >= 2
        /\ cyc[j] = jobs[j].max_retries + 1
        /\ jobs[j].state = "dead"

\* C6 (SpecJob): a fail_job at time t that leaves the job pending with the
\* new count a has set run_at = t + backoff_base^a, with the backoff_base
\* configured at that time; for backoff_base = 2 the delays of the failures
\* 1, 2, 3 are 2, 4, 8 seconds.
C6_BackoffGrowth ==
    \A j \in DOMAIN jobs :
        (last.op = "fail_job" /\ last.id = j /\ last.err = Ok
            /\ jobs[j].state = "pending") =>
            /\ jobs[j].run_at =
                  now + Power(GetConfig(config, "backoff_base"),
                              jobs[j].attempts)
            /\ GetConfig(config, "backoff_base") = 2 =>
                  /\ jobs[j].attempts = 1 => jobs[j].run_at - now = 2
                  /\ jobs[j].attempts = 2 => jobs[j].run_at - now = 4
                  /\ jobs[j].attempts = 3 => jobs[j].run_at - now = 8

\* C6's case: the third failure of a job under backoff_base = 2
C6_Witness ==
    \E j \in DOMAIN jobs :
        /\ last.op = "fail_job" /\ last.id = j /\ last.err = Ok
        /\ jobs[j].state = "pending" /\ jobs[j].attempts = 3
        /\ GetConfig(config, "backoff_base") = 2
        /\ jobs[j].run_at = now + 8

\* C7 (SpecStore): retry_job on a dead job succeeds and leaves the job
\* pending with attempts = 0, error and run_at unset, eligible for
\* acquire_job at once; no other job changes.
C7_RetryResets ==
    [][(last'.op = "retry_job" /\ last'.id \in DOMAIN jobs
            /\ jobs[last'.id].state = "dead") =>
          /\ last'.err = Ok
          /\ DOMAIN jobs' = DOMAIN jobs
          /\ jobs'[last'.id].state = "pending"
          /\ jobs'[last'.id].attempts = 0
          /\ jobs'[last'.id].error = NoText
          /\ jobs'[last'.id].run_at = NULL
          /\ jobs'[last'.id].locked_by = NULL
          /\ Eligible(jobs', last'.id, now')
          /\ \A k \in DOMAIN jobs \ {last'.id} : jobs'[k] = jobs[k]
      ]_vars

\* C7's case: a DLQ retry has just reset a job that had failed, beside
\* another job
C7_Witness ==
    /\ last.op = "retry_job" /\ last.err = Ok
    /\ last.id \in DOMAIN jobs
    /\ jobs[last.id].state = "pending" /\ jobs[last.id].attempts = 0
    /\ DOMAIN jobs # {last.id}

\* C8 (SpecStore): retry_job on a job that is pending, processing or
\* completed fails with NotInDLQ, on an id that names no job with NotFound,
\* and in both cases no job and no setting changes.
C8_RetryRejected ==
    [][last'.op = "retry_job" =>
          /\ (last'.id \in DOMAIN jobs /\ jobs[last'.id].state
                  \in {"pending", "processing", "completed"}) =>
                (last'.err = "NotInDLQ" /\ jobs' = jobs /\ config' = config)
          /\ last'.id \notin DOMAIN jobs =>
                (last'.err = "NotFound" /\ jobs' = jobs /\ config' = config)
      ]_vars

\* C8's case: a retry of a job that is processing was just refused
C8_Witness ==
    /\ last.op = "retry_job" /\ last.err = "NotInDLQ"
    /\ last.id \in DOMAIN jobs
    /\ jobs[last.id].state = "processing"

\* C9 (SpecStore): release_stale_locks(minutes) moves to pending exactly
\* the processing jobs with locked_at < now - minutes, clears their lease,
\* keeps their other fields but updated_at, leaves every other job as it
\* was, and returns how many it released; a second call right after the
\* first returns 0 and changes nothing.
C9_ReleaseStale ==
    [][last'.op = "release_stale_locks" =>
          LET stale == {j \in DOMAIN jobs :
                          /\ jobs[j].state = "processing"
                          /\ jobs[j].locked_at # NULL
                          /\ jobs[j].locked_at
                                < now - last'.arg * SecondsPerMinute}
          IN  /\ DOMAIN jobs' = DOMAIN jobs
              /\ \A j \in stale :
                    /\ jobs'[j].state = "pending"
                    /\ jobs'[j].locked_by = NULL
                    /\ jobs'[j].locked_at = NULL
                    /\ jobs'[j].attempts = jobs[j].attempts
                    /\ jobs'[j].error = jobs[j].error
                    /\ jobs'[j].run_at = jobs[j].run_at
                    /\ jobs'[j].max_retries = jobs[j].max_retries
                    /\ jobs'[j].created_at = jobs[j].created_at
                    /\ jobs'[j].output = jobs[j].output
              /\ \A j \in DOMAIN jobs \ stale : jobs'[j] = jobs[j]
              /\ last'.ret = Cardinality(stale)
              /\ (last.op = "release_stale_locks" /\ last.arg = last'.arg) =>
                    (last'.ret = 0 /\ jobs' = jobs)
      ]_vars

\* C9's case: a call has just released one stale lease and left a fresh
\* lease alone
C9_Witness ==
    /\ last.op = "release_stale_locks" /\ last.ret = 1
    /\ \E j \in DOMAIN jobs :
          jobs[j].state = "processing" /\ jobs[j].locked_at = now
    /\ \E j \in DOMAIN jobs :
          jobs[j].state = "pending" /\ jobs[j].updated_at = now

\* C10 (SpecStore): cleanup_old_jobs(days) deletes exactly the completed
\* jobs with updated_at < now - days and returns their number, every other
\* job stays as it was, and no other store call removes a job.
C10_RetentionCleanup ==
    [][/\ last'.op = "cleanup_old_jobs" =>
             LET old == {j \in DOMAIN jobs :
                            /\ jobs[j].state = "completed"
                            /\ jobs[j].updated_at
                                  < now - last'.arg * SecondsPerDay}
             IN  /\ DOMAIN jobs' = DOMAIN jobs \ old
                 /\ \A j \in DOMAIN jobs' : jobs'[j] = jobs[j]
                 /\ last'.ret = Cardinality(old)
       /\ last'.op # "cleanup_old_jobs" => DOMAIN jobs \subseteq DOMAIN jobs'
      ]_vars

\* C10's case: a cleanup has just deleted an old completed job and kept a
\* completed job that is not older than the cutoff
C10_Witness ==
    /\ last.op = "cleanup_old_jobs" /\ last.arg = 0 /\ last.ret = 1
    /\ \E j \in DOMAIN jobs :
          jobs[j].state = "completed" /\ jobs[j].updated_at = now

\* C11 (SpecStore): add_job with an id that names no job adds one row that
\* is pending with attempts = 0, no lease, no error and no output, and
\* leaves the other rows as they were; add_job with an id that names a job
\* fails with DuplicateID and changes no row.
C11_CreateJob ==
    [][last'.op = "add_job" =>
          /\ last'.id \notin DOMAIN jobs =>
                /\ last'.err = Ok
                /\ last'.ret = last'.id
                /\ DOMAIN jobs' = DOMAIN jobs \cup {last'.id}
                /\ jobs'[last'.id].state = "pending"
                /\ jobs'[last'.id].attempts = 0
                /\ jobs'[last'.id].locked_by = NULL
                /\ jobs'[last'.id].locked_at = NULL
                /\ jobs'[last'.id].error = NoText
                /\ jobs'[last'.id].output = NoText
                /\ \A k \in DOMAIN jobs : jobs'[k] = jobs[k]
          /\ last'.id \in DOMAIN jobs =>
                (last'.err = "DuplicateID" /\ jobs' = jobs /\ config' = config)
      ]_vars

\* C11's case: an add_job was just refused for the id of a job that is
\* leased and has failed before, beside another job
C11_Witness ==
    /\ last.op = "add_job" /\ last.err = "DuplicateID"
    /\ last.id \in DOMAIN jobs
    /\ jobs[last.id].state = "processing"
    /\ jobs[last.id].attempts >= 1
    /\ DOMAIN jobs # {last.id}

\* C12 (SpecJob): add_job without a max_retries argument stores the
\* max_retries setting of that moment, with one it stores the argument; no
\* later step (set_config, acquire_job, fail_job, complete_job, retry_job,
\* release_stale_locks) removes the row or changes its max_retries or
\* command, and fail_job sends the job to the DLQ by the stored value.
C12_MaxRetriesFixed ==
    [][/\ (last'.op = "add_job" /\ last'.err = Ok) =>
             jobs'[last'.id].max_retries =
                 IF last'.arg = NULL THEN GetConfig(config, "max_retries")
                 ELSE last'.arg
       /\ \A j \in DOMAIN jobs :
             /\ j \in DOMAIN jobs'
             /\ jobs'[j].max_retries = jobs[j].max_retries
             /\ jobs'[j].command = jobs[j].command
       /\ (last'.op = "fail_job" /\ last'.err = Ok) =>
             (jobs'[last'.id].state = "dead"
                 <=> jobs[last'.id].attempts + 1 > jobs[last'.id].max_retries)
      ]_vars

\* C12's case: a job created under the default setting has just failed for
\* the third time and is still pending, though max_retries is now set to 2
C12_Witness ==
    \E j \in DOMAIN jobs :
        /\ last.op = "fail_job" /\ last.id = j /\ last.err = Ok
        /\ jobs[j].max_retries = DefaultMaxRetries
        /\ GetConfig(config, "max_retries") = 2
        /\ jobs[j].attempts = 3
        /\ jobs[j].state = "pending"

\* C13 (SpecStore): after any sequence of store calls, every row has
\* locked_by and locked_at both set or both NULL, and they are set exactly
\* when the row is processing.
C13_LeaseInvariant ==
    \A j \in DOMAIN jobs :
        /\ jobs[j].locked_by = NULL <=> jobs[j].locked_at = NULL
        /\ jobs[j].locked_by # NULL <=> jobs[j].state = "processing"

\* C13's case: a job is leased again after its stale lease was released,
\* beside a job that has completed
C13_Witness ==
    /\ \E j \in DOMAIN jobs :
          /\ jobs[j].state = "processing"
          /\ jobs[j].locked_by # NULL
          /\ jobs[j].locked_at = now
          /\ jobs[j].created_at < now
    /\ \E k \in DOMAIN jobs : jobs[k].state = "completed"
    /\ last.op = "acquire_job"

\* C14 (Spec): in every state of the worker loops sharing the store, a
\* former holder's fail_job after a stale-lease reclaim included, every job
\* has attempts <= max_retries + 1.
C14_AttemptsBound ==
    \A j \in DOMAIN jobs : jobs[j].attempts <= jobs[j].max_retries + 1

\* the jobs an acquire_job at this moment may take, as the specification
\* words it: pending, with run_at unset or reached
Ready == {j \in DOMAIN jobs :
             /\ jobs[j].state = "pending"
             /\ (jobs[j].run_at = NULL \/ jobs[j].run_at <= now)}

Earliest == {j \in Ready : \A k \in Ready :
                jobs[j].created_at <= jobs[k].created_at}

\* C15 as stated (SpecStore): an acquire_job that runs alone returns the
\* ready job with the earliest created_at, the one with the smallest id
\* when several share it, and None only when no job is ready.
C15_SmallestIdOnTie ==
    [][last'.op = "acquire_job" =>
          IF Ready = {} THEN last'.ret = NULL
          ELSE /\ last'.ret \in Earliest
               /\ \A k \in Earliest : last'.ret <= k
      ]_vars

\* C15 as the code has it (SpecStore): an acquire_job that runs alone
\* returns a ready job with the earliest created_at, any one of them when
\* several share it, and None only when no job is ready.
C15_EarliestCreated ==
    [][last'.op = "acquire_job" =>
          IF Ready = {} THEN last'.ret = NULL
          ELSE /\ last'.ret \in Earliest
               /\ jobs'[last'.ret].state = "processing"
      ]_vars

\* C15's case: acquire_job has just returned job 2 although job 1, created
\* at the same instant, was ready as well
C15_Witness ==
    /\ last.op = "acquire_job" /\ last.ret = 2
    /\ 1 \in DOMAIN jobs
    /\ jobs[1].state = "pending" /\ jobs[1].run_at = NULL
    /\ jobs[1].created_at = jobs[2].created_at

\* C16 (Spec): the record a successful acquire_job(w) returns is the row as
\* the store holds it right after the guarded UPDATE: processing, locked_by
\* w, locked_at the time of the call, and the stored attempts, run_at and
\* error.
C16_ReturnedSnapshot ==
    \A w \in Workers :
        (/\ last.op = "acquire_job" /\ last.arg = w
         /\ last.ret # NULL /\ wk[w].got = last.ret
         /\ last.ret \in DOMAIN jobs) =>
            /\ wk[w].row.state = "processing"
            /\ wk[w].row.locked_by = w
            /\ wk[w].row.locked_at = wk[w].t
            /\ wk[w].row.attempts = jobs[last.ret].attempts
            /\ wk[w].row.run_at = jobs[last.ret].run_at
            /\ wk[w].row.error = jobs[last.ret].error

\* C17 (SpecStore): complete_job on an existing job makes it completed,
\* clears locked_by and locked_at and stores the output; on an id that names
\* no job it fails with NotFound and changes nothing.
C17_CompleteRequiresJob ==
    [][last'.op = "complete_job" =>
          /\ last'.id \in DOMAIN jobs =>
                /\ last'.err = Ok
                /\ jobs'[last'.id].state = "completed"
                /\ jobs'[last'.id].locked_by = NULL
                /\ jobs'[last'.id].locked_at = NULL
                /\ jobs'[last'.id].output \in OutputArgs
          /\ last'.id \notin DOMAIN jobs =>
                (last'.err = "NotFound" /\ jobs' = jobs)
      ]_vars

\* C18 (SpecStore): complete_job on a job that is already completed leaves
\* it completed with no lease and the same attempts; of its fields only
\* output and updated_at may change, and no other job changes.
C18_CompleteIdempotent ==
    [][(/\ last'.op = "complete_job"
        /\ last'.id \in DOMAIN jobs
        /\ jobs[last'.id].state = "completed") =>
          /\ DOMAIN jobs' = DOMAIN jobs
          /\ jobs'[last'.id].state = "completed"
          /\ jobs'[last'.id].locked_by = NULL
          /\ jobs'[last'.id].locked_at = NULL
          /\ jobs'[last'.id].attempts = jobs[last'.id].attempts
          /\ jobs'[last'.id] =
                [jobs[last'.id] EXCEPT
                    !.output = jobs'[last'.id].output,
                    !.updated_at = jobs'[last'.id].updated_at]
          /\ \A k \in DOMAIN jobs \ {last'.id} : jobs'[k] = jobs[k]
      ]_vars

\* C18's case: complete_job has just returned for a job that failed once
\* and is completed, at a later time than the job's creation
C18_Witness ==
    /\ last.op = "complete_job" /\ last.err = Ok
    /\ last.id \in DOMAIN jobs
    /\ jobs[last.id].state = "completed"
    /\ jobs[last.id].attempts >= 1
    /\ jobs[last.id].updated_at = now
    /\ jobs[last.id].created_at < now

\* C19 (SpecStore): fail_job on an id that names no job fails with NotFound
\* and changes no job and no setting.
C19_FailNotFound ==
    [][(last'.op = "fail_job" /\ last'.id \notin DOMAIN jobs) =>
          (last'.err = "NotFound" /\ jobs' = jobs /\ config' = config)
      ]_vars

\* C19's case: fail_job was just refused for an id that names no job, while
\* the store holds a leased job
C19_Witness ==
    /\ last.op = "fail_job" /\ last.err = "NotFound"
    /\ last.id \notin DOMAIN jobs
    /\ \E j \in DOMAIN jobs : jobs[j].state = "processing"

(* C20 (SpecWorker): a worker that has run an acquired job reports one     *)
(* outcome for it: complete_job when the command's exit code is 0 and     *)
(* only then, fail_job otherwise; and the error it hands to fail_job is   *)
(* not empty.                                                              *)
C20_OutcomeReporting ==
    [][\A w \in Workers :
          /\ (wk[w].pc = "report" /\ wk'[w].pc # "report") =>
                /\ last'.id = wk[w].got
                /\ IF wk[w].res.code = 0
                   THEN last'.op = "complete_job"
                   ELSE last'.op \in {"fail_select", "fail_job"}
          /\ (wk[w].pc = "fail" /\ wk'[w].pc # "fail") =>
                /\ last'.op = "fail_job" /\ last'.id = wk[w].got
                /\ wk[w].got \in DOMAIN jobs' =>
                      jobs'[wk[w].got].error \notin {"", NoText}
      ]_vars

(* C21 (SpecConfig): a fresh store reads max_retries = 3 and                  *)
(* backoff_base = 2; set_config(k, v) makes get_config(k) return v and    *)
(* leaves the other setting and every job as they were; no other step     *)
(* changes what get_config returns.                                        *)
C21_ConfigRoundTrip ==
    /\ GetConfig(config, "max_retries") = 3
    /\ GetConfig(config, "backoff_base") = 2
    /\ [][/\ DOMAIN config' = DOMAIN config
          /\ \A k \in DOMAIN config :
                IF last'.op = "set_config" /\ last'.key = k
                THEN GetConfig(config', k) = last'.arg /\ jobs' = jobs
                ELSE GetConfig(config', k) = GetConfig(config, k)
         ]_vars

\* C21's case: both settings were set, backoff_base to a value of two
\* digits, and a later fail_job has read it back
C21_Witness ==
    \E j \in DOMAIN jobs :
        /\ last.op = "fail_job" /\ last.id = j /\ last.err = Ok
        /\ GetConfig(config, "max_retries") = 2
        /\ GetConfig(config, "backoff_base") = 10
        /\ jobs[j].state = "pending"
        /\ jobs[j].run_at = now + 10

(* C22 (SpecPool): stop_workers sends SIGTERM to every process of its      *)
(* list that is alive; when it returns, every process that was in the     *)
(* list has ended, by leaving its loop or by kill(), the list is empty    *)
(* and count_active_workers is 0; and kill() reaches a process only when  *)
(* it is still alive once the 30 seconds have passed.                      *)
C22_StopWorkers ==
    [][/\ (mgr.pc = "idle" /\ mgr'.pc = "join") =>
             \A w \in Tracked(mgr) : proc[w].alive => proc'[w].signalled
       /\ (mgr.pc = "join" /\ mgr'.pc = "idle") =>
             /\ \A w \in Tracked(mgr) :
                   /\ ~proc'[w].alive
                   /\ proc'[w].exited \/ proc'[w].killed
                   /\ ~(proc'[w].exited /\ proc'[w].killed)
             /\ mgr'.workers = <<>>
             /\ CountActive(mgr', proc') = 0
       /\ \A w \in Workers :
             (proc'[w].killed /\ ~proc[w].killed) =>
                 /\ proc[w].alive
                 /\ w \in Tracked(mgr)
                 /\ mgr.pc = "join" /\ now >= mgr.deadline
      ]_vars

\* C22's case: stop_workers has returned; one worker had left its loop
\* after the signal, the other was killed while it ran a job
C22_Witness ==
    /\ last.op = "stop_workers"
    /\ mgr.workers = <<>>
    /\ \E v, w \in Workers :
          /\ proc[v].signalled /\ proc[v].exited /\ ~proc[v].running
          /\ proc[w].signalled /\ proc[w].killed
          /\ wk[w].pc = "exec"

\* the jobs whose row names w as the holder of the lease
LeasesOf(w) == {j \in DOMAIN jobs : jobs[j].locked_by = w}

C24_NeverExitsOnError ==
    [][\A w \in Workers :
          /\ (last'.op \in {"store_error", "fail_job"} /\ last'.err # Ok
                 /\ last'.arg = w /\ last' # last) =>
                /\ proc'[w].alive /\ proc'[w].running = proc[w].running
                /\ wk'[w].pc = "backoff"
          /\ (proc[w].alive /\ wk[w].pc = "backoff") =>
                /\ ENABLED WorkerBackoff(w)
                /\ wk'[w].pc \in {"backoff", "idle"}
          /\ (proc[w].alive /\ proc[w].running /\ wk[w].pc = "idle") =>
                ENABLED WorkerRelease(w)
          /\ (proc[w].alive /\ ~proc'[w].alive) =>
                \/ proc'[w].killed
                \/ proc'[w].exited /\ ~proc[w].running /\ wk[w].pc = "idle"
      ]_vars

\* C24's case: a worker whose complete_job or fail_job raised is in a
\* later iteration, its flag still true
C24_Witness ==
    \E w \in Workers :
        /\ proc[w].alive /\ proc[w].running
        /\ proc[w].lost # NULL
        /\ wk[w].pc = "acquire"

(* C25 (Spec): with worker loops sharing the store, a row becomes          *)
(* 'completed' only from 'processing', and a 'completed' row stays        *)
(* 'completed' until cleanup_old_jobs deletes it.                          *)
C25_CompletedFinal ==
    [][\A j \in DOMAIN jobs :
          /\ (j \in DOMAIN jobs' /\ jobs'[j].state = "completed"
                  /\ jobs[j].state # "completed") =>
                jobs[j].state = "processing"
          /\ jobs[j].state = "completed" =>
                \/ j \notin DOMAIN jobs' /\ last'.op = "cleanup_old_jobs"
                \/ j \in DOMAIN jobs' /\ jobs'[j].state = "completed"
      ]_vars

(* C26 (Spec): with worker loops sharing the store, a 'dead' row is        *)
(* changed by retry_job alone: no other step deletes it or changes its    *)
(* state, attempts or error.                                               *)
C26_DeadFinal ==
    [][\A j \in DOMAIN jobs :
          jobs[j].state = "dead" =>
              /\ j \in DOMAIN jobs'
              /\ \/ last'.op = "retry_job" /\ last'.id = j
                 \/ /\ jobs'[j].state = "dead"
                    /\ jobs'[j].attempts = jobs[j].attempts
                    /\ jobs'[j].error = jobs[j].error
      ]_vars

(* C27 (SpecJob): across a store call a row's attempts stays as it is,     *)
(* or grows by exactly 1 in a fail_job on that row, or becomes 0 in a     *)
(* retry_job on that row while it is dead; acquire_job, complete_job,     *)
(* release_stale_locks and set_config leave attempts alone.                *)
C27_AttemptsSteps ==
    [][\A j \in DOMAIN jobs \cap DOMAIN jobs' :
          /\ \/ jobs'[j].attempts = jobs[j].attempts
             \/ /\ jobs'[j].attempts = jobs[j].attempts + 1
                /\ last'.op = "fail_job" /\ last'.id = j
             \/ /\ jobs'[j].attempts = 0
                /\ last'.op = "retry_job" /\ last'.id = j
                /\ jobs[j].state = "dead"
          /\ (last'.op = "fail_job" /\ last'.id = j /\ last'.err = Ok) =>
                jobs'[j].attempts = jobs[j].attempts + 1
          /\ (last'.op = "retry_job" /\ last'.id = j /\ last'.err = Ok) =>
                jobs'[j].attempts = 0
          /\ last'.op \in {"acquire_job", "complete_job",
                           "release_stale_locks", "set_config"} =>
                jobs'[j].attempts = jobs[j].attempts
      ]_vars

\* C27's case: a DLQ retry has just reset a job that was created under the
\* default max_retries and so had failed four times, after a set_config
C27_Witness ==
    /\ last.op = "retry_job" /\ last.err = Ok /\ last.id = 1
    /\ jobs[1].attempts = 0
    /\ jobs[1].max_retries = DefaultMaxRetries
    /\ GetConfig(config, "max_retries") = 2

\* worker w is dead and job 1 is still leased to it, with a attempts,
\* at a time after which the clock of the model still moves
DiedHolding(w, a) ==
    /\ ~proc[w].alive
    /\ 1 \in DOMAIN jobs
    /\ jobs[1].state = "processing" /\ jobs[1].locked_by = w
    /\ jobs[1].attempts = a
    /\ now < MaxWaits * (StaleSeconds + 1)

\* job 1 is pending again, without a lease and with a attempts
Recovered(a) ==
    /\ 1 \in DOMAIN jobs
    /\ jobs[1].state = "pending" /\ jobs[1].locked_by = NULL
    /\ jobs[1].attempts = a

\* job 1 is leased to a live worker other than w
Reacquired(w) ==
    /\ 1 \in DOMAIN jobs
    /\ jobs[1].state = "processing"
    /\ jobs[1].locked_by \in Workers \ {w}
    /\ proc[jobs[1].locked_by].alive

(* C28 (SpecCrash): when a worker has died holding the lease of a job and *)
(* another worker keeps polling, the job is eventually pending again,     *)
(* without a lease and with the attempts it had, and is eventually leased  *)
(* to a live worker.                                                       *)
C28_CrashRecovery ==
    \A w \in Workers : \A a \in 0..MaxRetriesArg :
        /\ DiedHolding(w, a) ~> Recovered(a)
        /\ DiedHolding(w, a) ~> Reacquired(w)

(* C29 (Spec): fail_job reads and writes a row as one step: the UPDATE of  *)
(* a fail_job finds the attempts that its SELECT read and leaves the row  *)
(* with one attempt more than it had, so that of two overlapping          *)
(* fail_job calls on a job each adds 1.                                    *)
C29_FailJobAtomic ==
    [][\A w \in Workers :
          (wk[w].pc = "fail" /\ wk'[w].pc # "fail"
              /\ wk[w].got \in DOMAIN jobs) =>
              /\ jobs[wk[w].got].attempts = wk[w].att
              /\ jobs'[wk[w].got].attempts = jobs[wk[w].got].attempts + 1
      ]_vars

\* job 1 is completed or dead
Terminal ==
    1 \in DOMAIN jobs /\ jobs[1].state \in {"completed", "dead"}

\* the clock of the model has stopped before a time that job 1 waits for:
\* the run_at of a job that has retries left, or the time at which the
\* lease of a dead worker is stale
WaitsForTime ==
    /\ ~ENABLED JobClock
    /\ 1 \in DOMAIN jobs
    /\ \/ /\ jobs[1].state = "pending"
          /\ jobs[1].attempts <= jobs[1].max_retries
          /\ jobs[1].run_at # NULL
          /\ jobs[1].run_at > now
       \/ /\ jobs[1].state = "processing"
          /\ ~proc[jobs[1].locked_by].alive
          /\ jobs[1].locked_at >= now - StaleSeconds

(* C30 (SpecFair): with a worker loop that keeps running, time that       *)
(* advances and executions that end, a created job is completed or dead   *)
(* again and again: it is never pending or processing forever, unless the *)
(* clock of the model stops before the time it waits for.                 *)
C30_ReachesTerminal ==
    (1 \in DOMAIN jobs) ~> (Terminal \/ WaitsForTime)

\* C30's case: job 1 is dead after a retry, its first holder having died
C30_Witness ==
    /\ Terminal
    /\ jobs[1].state = "dead"
    /\ jobs[1].attempts = 2
    /\ \E w \in Workers : ~proc[w].alive

(* C31 (SpecBudget): state and retry budget agree: a job that is pending  *)
(* or processing has attempts <= max_retries, a job that is dead has      *)
(* attempts > max_retries, and no job is in the state 'failed'.           *)
C31_StateAndBudget ==
    \A j \in DOMAIN jobs :
        /\ jobs[j].state \in {"pending", "processing"} =>
               jobs[j].attempts <= jobs[j].max_retries
        /\ jobs[j].state = "dead" =>
               jobs[j].attempts > jobs[j].max_retries
        /\ jobs[j].state # "failed"

====
